---- MODULE Spec2Model ----
(***************************************************************************)
(* A model of git-mirror (src/src/git-mirror.py): one process run loads    *)
(* the manifest, then walks it with manf(), calling do_mirror,             *)
(* do_integrity or do_purge on every entry that is not skipped.            *)
(*                                                                         *)
(* Strings are sequences of one-character strings, so that the regexes of  *)
(* repo_schema and the substring tests of the providers are computed.      *)
(* A JSON object is a record: a key is missing when it is not in DOMAIN.   *)
(* A dict that the code iterates is a sequence of <<key, value>> pairs     *)
(* (Python dicts keep insertion order).                                    *)
(***************************************************************************)
EXTENDS Integers, Sequences, FiniteSets, TLC

VARIABLES
    manifest,      \* content of the manifest file (a JSON list)
    cmd,           \* args.func: "mirror", "integrity" or "purge"
    dry_run,       \* args.dry_run
    target,        \* args.target (purge only)
    providers,     \* App.providers, in registration order
    run,           \* number of process runs started so far
    pc,            \* position of the running process
    i,             \* manf: index of the current entry of repos
    j,             \* index in the replica loop of the current handler
    repo_info,     \* the RepoInfo handed to the handler
    error_count,   \* WrappedLogger._error_count
    exit_code,     \* argument of sys.exit, -1 while running
    ops,           \* external operations executed for the current entry
    returned,      \* indices of the entries whose handler returned
    err_base,      \* error_count when the current handler was called
    clone_failed,  \* indices of the entries whose clone failed in this run
    origin_branches, \* do_integrity: the origin's ref map
    diff,          \* do_integrity: the last difference computed
    output,        \* the standard outputs of the listings that are in scope
    disk,          \* directories that exist under repo_dir
    cfg,           \* git remotes configured in the mirrors: <<repo, name, url>>
    remoteUp,      \* URLs that answer a remote-listing query
    disk0,         \* disk when the current run started
    cfg0,          \* cfg when the current run started
    up0            \* remoteUp when the current run started

vars == <<manifest, cmd, dry_run, target, providers, run, pc, i, j, repo_info,
          error_count, exit_code, ops, returned, err_base, clone_failed,
          origin_branches, diff, output, disk, cfg, remoteUp, disk0, cfg0,
          up0>>

(***************************************************************************)
(* Bounds of the model.                                                    *)
(***************************************************************************)
MaxRepos == 2
MaxRuns == 2

(***************************************************************************)
(* Characters and strings.                                                 *)
(***************************************************************************)
Lower == {"a", "b", "c", "d", "e", "f", "g", "h", "i", "j", "k", "l", "m",
          "n", "o", "p", "q", "r", "s", "t", "u", "v", "w", "x", "y", "z"}
Upper == {"A", "B", "C", "D", "E", "F", "G", "H", "I", "J", "K", "L", "M",
          "N", "O", "P", "Q", "R", "S", "T", "U", "V", "W", "X", "Y", "Z"}
Digit == {"0", "1", "2", "3", "4", "5", "6", "7", "8", "9"}
\* the class \w of Python's re on ASCII text
Word == Lower \cup Upper \cup Digit \cup {"_"}

\* re.match(pattern + "$", s) for a pattern "first rest*": Cerberus appends
\* the "$", and Python's "$" also matches before one trailing newline.
RegexMatch(first, rest, minLen, s) ==
    \E k \in minLen..Len(s) :
        /\ k >= 1 => s[1] \in first
        /\ \A p \in 2..k : s[p] \in rest
        /\ \/ k = Len(s)
           \/ k = Len(s) - 1 /\ s[Len(s)] = "\n"

\* "regex": r"[a-z][-_\w]*" of repo_schema.guid
GuidRegex(s) == RegexMatch(Lower, Word \cup {"-"}, 1, s)

\* "regex": "[a-z]+" of repo_schema.replicas.keysrules
KeyRegex(s) == RegexMatch(Lower, Lower, 1, s)

\* Python's  t in s  on strings
Contains(s, t) ==
    \E k \in 1..(Len(s) - Len(t) + 1) : SubSeq(s, k, k + Len(t) - 1) = t

(***************************************************************************)
(* Dicts as sequences of <<key, value>> pairs.                             *)
(***************************************************************************)
Keys(d) == {d[k][1] : k \in 1..Len(d)}

HasKey(d, key) == \E k \in 1..Len(d) : d[k][1] = key

\* d[key] = value: an existing key keeps its place, a new key goes last
DictSet(d, key, value) ==
    IF HasKey(d, key)
    THEN [k \in 1..Len(d) |-> IF d[k][1] = key THEN <<key, value>> ELSE d[k]]
    ELSE Append(d, <<key, value>>)

(***************************************************************************)
(* The inputs: guids, URLs, replica dicts, manifest entries.               *)
(***************************************************************************)
GuidA == <<"a">>
GuidB == <<"b", "-", "1">>
BadGuids == {<<"B">>, <<"1", "a">>, <<"a", ".">>, <<>>}

NameGitlab == <<"g", "i", "t", "l", "a", "b">>
NameAws == <<"a", "w", "s">>
BadKey == <<"r", "2">>

OriginA == <<"o", "a">>
OriginB == <<"o", "b">>
UrlGitlab == <<"g", "i", "t", "l", "a", "b", "/", "x">>
UrlCodeCommit == <<"c", "o", "d", "e", "c", "o", "m", "m", "i", "t", "/", "x">>
UrlOther == <<"h", "u", "b", "/", "x">>

UrlBoth == <<"g", "i", "t", "l", "a", "b", "/", "c", "o", "d", "e", "c", "o", "m", "m", "i", "t">>

URLs == {UrlGitlab, UrlCodeCommit, UrlOther, UrlBoth}

\* the replicas objects that occur in the manifests
DictsA ==
    { <<>>,
      << <<NameGitlab, UrlGitlab>> >>,
      << <<NameGitlab, UrlGitlab>>, <<NameAws, UrlCodeCommit>> >>,
      << <<NameAws, UrlOther>>, <<NameGitlab, UrlGitlab>> >> }
DictsB == { << <<NameAws, UrlBoth>> >> }

\* entries that repo_schema accepts
EntriesA ==
    {[guid |-> GuidA, origin |-> OriginA, replicas |-> d] : d \in DictsA}
    \cup {[guid |-> GuidA, origin |-> OriginA,
           replicas |-> << <<NameGitlab, UrlGitlab>> >>, skip |-> TRUE]}
    \cup {[guid |-> GuidA, origin |-> OriginA]}
EntriesB ==
    {[guid |-> GuidB, origin |-> OriginB, replicas |-> d] : d \in DictsB}
    \cup {[guid |-> GuidB, origin |-> OriginB, skip |-> FALSE]}

\* entries that break one rule of repo_schema each
BrokenEntries ==
    {[guid |-> g, origin |-> OriginB, replicas |-> <<>>] : g \in BadGuids}
    \cup {[origin |-> OriginB, replicas |-> <<>>],
          [guid |-> GuidB, replicas |-> <<>>],
          [guid |-> GuidB, origin |-> OriginB,
           replicas |-> << <<BadKey, UrlOther>> >>],
          [guid |-> GuidB, origin |-> OriginB, replicas |-> <<>>,
           aliases |-> <<GuidA>>]}

Entries == EntriesA \cup EntriesB \cup BrokenEntries

\* a JSON list of at most MaxRepos entries; guid is the unique identifier
\* of an entry
Manifests ==
    {m \in UNION {[1..n -> Entries] : n \in 0..MaxRepos} :
        \A p, q \in 1..Len(m) :
            (p # q /\ "guid" \in DOMAIN m[p] /\ "guid" \in DOMAIN m[q])
                => m[p].guid # m[q].guid}

ReplicaUrls(m) ==
    UNION {IF "replicas" \in DOMAIN m[p]
           THEN {m[p].replicas[k][2] : k \in 1..Len(m[p].replicas)}
           ELSE {} : p \in 1..Len(m)}

\* App.providers for the settings GIT_MIRROR_USE_GITLAB and
\* GIT_MIRROR_USE_CODECOMMIT
ProviderConfigs == { <<"gitlab", "codecommit">>, <<"codecommit">>, <<>> }

Commands == {"mirror", "integrity", "purge"}

\* choices of the purge --target argument
Targets == {NameGitlab, NameAws}

(***************************************************************************)
(* Manifest validation.                                                    *)
(***************************************************************************)
SchemaKeys == {"guid", "origin", "description", "skip", "replicas"}

\* cer.Validator().validate(repo, repo_schema); every value of the inputs
\* has the type its rule asks for
Validate(repo) ==
    /\ DOMAIN repo \subseteq SchemaKeys
    /\ "guid" \in DOMAIN repo
    /\ GuidRegex(repo.guid)
    /\ "origin" \in DOMAIN repo
    /\ "replicas" \in DOMAIN repo =>
           \A key \in Keys(repo.replicas) : KeyRegex(key)

\* load_manifest that validates the first entry only
LoadOkFirstEntry(m) == Len(m) = 0 \/ Validate(m[1])

\* load_manifest returns (repos, None) or (None, err)
LoadOk(m) == \A p \in 1..Len(m) : Validate(m[p])

SkipNever(repo) == FALSE

\* repo.get("skip")
Skip(repo) == "skip" \in DOMAIN repo /\ repo.skip

(***************************************************************************)
(* The state after construction: nothing runs yet.  The mirror directory   *)
(* is empty, or holds the mirror of GuidA with a remote registered under   *)
(* an URL the manifest has since replaced.                                 *)
(***************************************************************************)
NoInfo == [repo_name |-> <<>>, origin |-> <<>>, has_replicas |-> FALSE,
           replicas |-> <<>>, repo_path |-> <<>>, exists |-> FALSE]

StaleCfg == {<<GuidA, NameGitlab, UrlOther>>}

Init ==
    /\ manifest \in Manifests
    /\ cmd \in Commands
    /\ dry_run \in BOOLEAN
    /\ target \in (IF cmd = "purge" THEN Targets ELSE {<<>>})
    /\ providers \in ProviderConfigs
    /\ run = 0
    /\ pc = "idle"
    /\ i = 0
    /\ j = 0
    /\ repo_info = NoInfo
    /\ error_count = 0
    /\ exit_code = -1
    /\ ops = <<>>
    /\ returned = {}
    /\ err_base = 0
    /\ clone_failed = {}
    /\ origin_branches = <<>>
    /\ diff = {}
    /\ output = <<>>
    /\ \/ disk = {} /\ cfg = {}
       \/ disk = {GuidA} /\ cfg = StaleCfg
    /\ remoteUp \in SUBSET ReplicaUrls(manifest)
    /\ disk0 = disk
    /\ cfg0 = cfg
    /\ up0 = remoteUp

(***************************************************************************)
(* __main__                                                                *)
(***************************************************************************)
\* variables that no step of a run assigns
Args == <<manifest, cmd, dry_run, target, providers, run, disk0, cfg0, up0>>

\* variables that no step of a handler assigns
HandlerArgs == <<Args, err_base>>

\* a process starts: a fresh logger, the arguments and the manifest file
\* are those of the previous run
Start ==
    /\ pc \in {"idle", "exit"}
    /\ run < MaxRuns
    /\ run' = run + 1
    /\ pc' = "load"
    /\ error_count' = 0
    /\ exit_code' = -1
    /\ ops' = <<>>
    /\ returned' = {}
    /\ err_base' = 0
    /\ clone_failed' = {}
    /\ i' = 0
    /\ j' = 0
    /\ repo_info' = NoInfo
    /\ origin_branches' = <<>>
    /\ diff' = {}
    /\ output' = <<>>
    /\ disk0' = disk
    /\ cfg0' = cfg
    /\ up0' = remoteUp
    /\ UNCHANGED <<manifest, cmd, dry_run, target, providers, disk, cfg, remoteUp>>

\* load_manifest and the test of its result: logger.fatal does not count
\* as an error, sys.exit(1) ends the run
LoadManifest ==
    /\ pc = "load"
    /\ IF LoadOk(manifest)
       THEN /\ pc' = "manf"
            /\ i' = 1
            /\ UNCHANGED exit_code
       ELSE /\ pc' = "exit"
            /\ exit_code' = 1
            /\ UNCHANGED i
    /\ UNCHANGED <<j, repo_info, error_count, ops, returned, err_base,
                   clone_failed, origin_branches, diff, output, disk, cfg, remoteUp>>
    /\ UNCHANGED Args

\* the handler goes on at position p, replica index jj
Goto(p, jj) ==
    /\ pc' = p
    /\ j' = jj
    /\ UNCHANGED <<i, returned, exit_code>>

ReturnFalse ==
    /\ pc' = "manf"
    /\ i' = Len(manifest) + 1
    /\ returned' = returned \cup {i}
    /\ UNCHANGED <<j, exit_code>>

\* the handler returns True: manf goes to the next entry
ReturnTrue ==
    /\ pc' = "manf"
    /\ i' = i + 1
    /\ returned' = returned \cup {i}
    /\ UNCHANGED <<j, exit_code>>

\* an exception reaches the handler of __main__: logger.error(err), sys.exit(1)
Crash ==
    /\ pc' = "exit"
    /\ exit_code' = 1
    /\ error_count' = error_count + 1
    /\ UNCHANGED <<i, j, returned>>

\* self.log.error(...) called n times
LogError(n) == error_count' = error_count + n

\* the RepoInfo that manf builds from an entry
MakeInfo(repo) ==
    [repo_name |-> repo.guid,
     origin |-> repo.origin,
     has_replicas |-> "replicas" \in DOMAIN repo,
     replicas |-> IF "replicas" \in DOMAIN repo THEN repo.replicas ELSE <<>>,
     repo_path |-> <<>>,
     exists |-> FALSE]

FuncMirrorForAll(command) == "mirror"

\* args.func, set by set_defaults of the subcommand's parser: the position
\* where the handler of the subcommand starts
Func(command) ==
    CASE command = "mirror" -> "mirror"
      [] command = "integrity" -> "integrity"
      [] command = "purge" -> "purge"

\* one turn of the loop of manf, up to the call of the handler; after the
\* last entry, the summary and sys.exit(logger.error_count)
Manf ==
    /\ pc = "manf"
    /\ IF i > Len(manifest)
       THEN /\ pc' = "exit"
            /\ exit_code' = error_count
            /\ UNCHANGED <<i, j, repo_info, ops, err_base>>
       ELSE IF Skip(manifest[i])
       THEN /\ i' = i + 1
            /\ UNCHANGED <<pc, exit_code, j, repo_info, ops, err_base>>
       ELSE /\ pc' = Func(cmd)
            /\ repo_info' = MakeInfo(manifest[i])
            /\ j' = 1
            /\ ops' = <<>>
            /\ err_base' = error_count
            /\ UNCHANGED <<i, exit_code>>
    /\ UNCHANGED <<error_count, returned, clone_failed, origin_branches, diff, output,
                   disk, cfg, remoteUp>>
    /\ UNCHANGED Args

(***************************************************************************)
(* External commands and provider calls.  ops records the ones that were   *)
(* really executed: run_command in dry-run mode executes nothing.          *)
(***************************************************************************)
Op(kind, name, url, ok) == [op |-> kind, name |-> name, url |-> url, ok |-> ok]

OutcomesAnyway == BOOLEAN

\* run_command: in dry-run mode the only outcome is the synthetic success
\* and no command runs; otherwise the command runs and succeeds or fails
Outcomes == IF dry_run THEN {TRUE} ELSE BOOLEAN

Ran(kind, name, url, ok) ==
    IF dry_run THEN <<>> ELSE <<Op(kind, name, url, ok)>>

TokenGitlab == <<"g", "i", "t", "l", "a", "b">>
TokenCodeCommit == <<"c", "o", "d", "e", "c", "o", "m", "m", "i", "t">>

\* Gitlab.match and CodeCommit.match
Match(provider, url) ==
    IF provider = "gitlab" THEN Contains(url, TokenGitlab)
    ELSE Contains(url, TokenCodeCommit)

FirstMatchLast(url) ==
    IF \E k \in 1..Len(providers) : Match(providers[k], url)
    THEN providers[CHOOSE k \in 1..Len(providers) :
                       /\ Match(providers[k], url)
                       /\ \A q \in (k + 1)..Len(providers) : ~Match(providers[q], url)]
    ELSE ""

\* the provider that the loops of create_remote and delete_remote stop at,
\* "" when the loop ends without a match
FirstMatch(url) ==
    IF \E k \in 1..Len(providers) : Match(providers[k], url)
    THEN providers[CHOOSE k \in 1..Len(providers) :
                       /\ Match(providers[k], url)
                       /\ \A q \in 1..(k - 1) : ~Match(providers[q], url)]
    ELSE ""

(***************************************************************************)
(* Remote listings.  The standard output of a command is a sequence of     *)
(* tokens: the separators "\n" and "\t", and words that hold neither.      *)
(***************************************************************************)
RECURSIVE Split(_, _)
\* Python's  s.split(sep)
Split(s, sep) ==
    IF \A k \in 1..Len(s) : s[k] # sep
    THEN <<s>>
    ELSE LET k == CHOOSE q \in 1..Len(s) :
                      s[q] = sep /\ \A r \in 1..(q - 1) : s[r] # sep
         IN  <<SubSeq(s, 1, k - 1)>> \o Split(SubSeq(s, k + 1, Len(s)), sep)

RECURSIVE DictOfLines(_)
\* {l[1]: l[0] for l in lines if len(l) == 2}
DictOfLines(lines) ==
    IF lines = <<>> THEN <<>>
    ELSE LET l == lines[Len(lines)]
             d == DictOfLines(SubSeq(lines, 1, Len(lines) - 1))
         IN  IF Len(l) = 2 THEN DictSet(d, l[2], l[1]) ELSE d

\* the dict that ls_remote builds from the standard output
RefMap(stdout) ==
    LET lines == Split(stdout, "\n")
    IN  DictOfLines([k \in 1..Len(lines) |-> Split(lines[k], "\t")])

RefHead == <<"HEAD">>

\* what "git ls-remote" prints for a remote that answers; in dry-run mode
\* run_command returns the empty output
Listings ==
    { <<>>,
      <<"h1", "\t", "HEAD", "\n", "h1", "\t", "refs/heads/main", "\n">>,
      <<"h2", "\t", "HEAD", "\n", "h2", "\t", "refs/heads/main", "\n">>,
      <<"h1", "\t", "HEAD", "\n", "h1", "\t", "refs/heads/main", "\n",
        "h2", "\t", "refs/tags/v1", "\n">> }

\* a test that takes a listing without HEAD for a missing remote
GetIsNonEmpty(d, key) ==
    \E k \in 1..Len(d) : d[k][1] = key /\ d[k][2] # <<>>

\* d.get(key) != "": a missing key gives None, which differs from ""
GetDiffersFromEmpty(d, key) ==
    \A k \in 1..Len(d) : d[k][1] = key => d[k][2] # <<>>

(***************************************************************************)
(* do_mirror                                                               *)
(***************************************************************************)
Replica == repo_info.replicas[j]

\* `for name, url in repo_info.replicas.items()` is reached
EnterReplicaLoop ==
    IF ~repo_info.has_replicas
    THEN Crash
    ELSE /\ Goto(IF Len(repo_info.replicas) = 0 THEN "fetch" ELSE "probe", 1)
         /\ UNCHANGED error_count

NextReplicaSkipsRest == Goto("fetch", j + 1)

\* the loop body ends for replica j: the next replica, or app.sync
NextReplica ==
    Goto(IF j < Len(repo_info.replicas) THEN "probe" ELSE "fetch", j + 1)

\* do_mirror after clone_mirror returned ok
AfterClone(ok) ==
    IF ok
    THEN /\ EnterReplicaLoop
         /\ UNCHANGED clone_failed
    ELSE /\ LogError(1)
         /\ ReturnTrue
         /\ clone_failed' = clone_failed \cup {i}

\* do_mirror up to the replica loop: the path, the test of the directory
\* and clone_mirror
MirrorClone ==
    /\ pc = "mirror"
    /\ LET name == repo_info.repo_name
           exists == name \in disk
       IN  /\ repo_info' = [repo_info EXCEPT !.repo_path = name,
                                             !.exists = exists]
           /\ \/ /\ exists
                 /\ EnterReplicaLoop
                 /\ UNCHANGED <<ops, disk, clone_failed>>
              \/ /\ ~exists
                 /\ \E ok \in Outcomes :
                       /\ ops' = ops \o Ran("clone", <<>>, repo_info.origin, ok)
                       /\ disk' = IF ok /\ ~dry_run THEN disk \cup {name} ELSE disk
                       /\ AfterClone(ok)
    /\ UNCHANGED <<origin_branches, diff, output, cfg, remoteUp>>
    /\ UNCHANGED HandlerArgs

RepoExistsNeedsRefs(listed, stdout) == listed /\ RefMap(stdout) # <<>>

\* App.repo_exists, given whether ls_remote returned a dict and the
\* standard output it was built from
RepoExists(listed, stdout) == listed /\ GetDiffersFromEmpty(RefMap(stdout), RefHead)

\* app.repo_exists(url) in do_mirror: ls_remote and the test of its result;
\* output is empty when ls_remote returned None
ProbeReplica ==
    /\ pc = "probe"
    /\ LET url == Replica[2]
           reachable == dry_run \/ url \in remoteUp
       IN  /\ ops' = ops \o Ran("ls-remote", Replica[1], url, reachable)
           /\ IF reachable
              THEN \E out \in (IF dry_run THEN {<<>>} ELSE Listings) :
                       /\ output' = <<out>>
                       /\ IF RepoExists(TRUE, out)
                          THEN Goto("add", j)
                          ELSE Goto("create", j)
              ELSE /\ output' = <<>>
                   /\ IF RepoExists(FALSE, <<>>)
                      THEN Goto("add", j)
                      ELSE Goto("create", j)
    /\ UNCHANGED <<repo_info, error_count, clone_failed, origin_branches, diff,
                   disk, cfg, remoteUp>>
    /\ UNCHANGED HandlerArgs

AfterCreateRetries(ok) ==
    IF ok THEN Goto("add", j)
    ELSE IF \A k \in 1..Len(ops) : ops[k].op \notin {"create:gitlab", "create:codecommit"}
    THEN Goto("create", j)
    ELSE NextReplica

\* do_mirror after create_remote returned (err, remote_url), ok when err
\* is None: a failure is logged at level info and the replica is left
AfterCreate(ok) == IF ok THEN Goto("add", j) ELSE NextReplica

\* app.create_remote(url) and the test of its result in do_mirror; the
\* provider's API is called whatever dry_run is
CreateRemote ==
    /\ pc = "create"
    /\ LET url == Replica[2]
           provider == FirstMatch(url)
       IN  \/ /\ provider = ""
              /\ AfterCreate(FALSE)
              /\ UNCHANGED <<ops, remoteUp>>
           \/ /\ provider # ""
              /\ \E ok \in BOOLEAN :
                    /\ ops' = Append(ops, Op("create:" \o provider, Replica[1], url, ok))
                    /\ remoteUp' = IF ok THEN remoteUp \cup {url} ELSE remoteUp
                    /\ AfterCreate(ok)
    /\ output' = <<>>
    /\ UNCHANGED <<repo_info, error_count, clone_failed, origin_branches, diff,
                   disk, cfg>>
    /\ UNCHANGED HandlerArgs

\* the URLs that "git config --get remote.<name>.url" finds in the mirror
Configured(c, repo, name) == {t[3] : t \in {x \in c : x[1] = repo /\ x[2] = name}}

\* a set-url that leaves the old URL in place
SetUrlKeepsOld(repo, name, url) == cfg \cup {<<repo, name, url>>}

\* the remotes after a successful "git remote set-url <name> <url>"
SetUrl(repo, name, url) ==
    {x \in cfg : ~(x[1] = repo /\ x[2] = name)} \cup {<<repo, name, url>>}

\* the remotes after a successful "git remote add --mirror <name> <url>"
RemoteAdd(repo, name, url) == cfg \cup {<<repo, name, url>>}

AfterAddReplicaStops(ok) == IF ok THEN NextReplica ELSE ReturnTrue

\* do_mirror after add_replica returned ok: the result is not looked at
AfterAddReplica(ok) == NextReplica

\* app.add_replica(repo_info, name, url) and what do_mirror does next
AddReplica ==
    /\ pc = "add"
    /\ LET name == Replica[1]
           url == Replica[2]
           repo == repo_info.repo_path
           found == IF dry_run THEN {<<>>} ELSE Configured(cfg, repo, name)
           get == Ran("config-get", name, url, found # {})
       IN  \/ /\ found # {}
              /\ \E old_url \in found :
                    IF old_url = url
                    THEN /\ ops' = ops \o get
                         /\ AfterAddReplica(TRUE)
                         /\ UNCHANGED <<cfg, error_count>>
                    ELSE \E ok \in Outcomes :
                            /\ ops' = ops \o get \o Ran("set-url", name, url, ok)
                            /\ cfg' = IF ok /\ ~dry_run
                                      THEN SetUrl(repo, name, url) ELSE cfg
                            /\ LogError(IF ok THEN 0 ELSE 1)
                            /\ AfterAddReplica(ok)
              /\ UNCHANGED repo_info
           \/ /\ found = {}
              /\ \E ok \in Outcomes :
                    /\ ops' = ops \o get \o Ran("remote-add", name, url, ok)
                    /\ cfg' = IF ok THEN RemoteAdd(repo, name, url) ELSE cfg
                    /\ LogError(IF ok THEN 0 ELSE 1)
                    /\ AfterAddReplica(ok)
                    /\ repo_info' =
                           IF ok
                           THEN [repo_info EXCEPT
                                     !.replicas = DictSet(@, name, url)]
                           ELSE repo_info
    /\ output' = <<>>
    /\ UNCHANGED <<clone_failed, origin_branches, diff, disk, remoteUp>>
    /\ UNCHANGED HandlerArgs

\* a sync that pushes whatever the fetch did
AfterFetchIgnoresError(ok) ==
    IF Len(repo_info.replicas) > 0 THEN Goto("push", 1) ELSE ReturnTrue

\* app.sync after the fetch returned: on an error `return 1`, else the
\* push loop over repo_info.replicas
AfterFetch(ok) ==
    IF ok /\ Len(repo_info.replicas) > 0 THEN Goto("push", 1) ELSE ReturnTrue

\* app.sync: the fetch from origin
Fetch ==
    /\ pc = "fetch"
    /\ \E ok \in Outcomes :
          /\ ops' = ops \o Ran("fetch", <<>>, repo_info.origin, ok)
          /\ LogError(IF ok THEN 0 ELSE 1)
          /\ AfterFetch(ok)
    /\ UNCHANGED <<repo_info, clone_failed, origin_branches, diff, output, disk, cfg,
                   remoteUp>>
    /\ UNCHANGED HandlerArgs

\* a push loop that stops at the first failure
AfterPushStopsOnError(ok) ==
    IF ok /\ j < Len(repo_info.replicas) THEN Goto("push", j + 1) ELSE ReturnTrue

\* app.sync after a push returned: `continue` on an error as on a success
AfterPush(ok) ==
    IF j < Len(repo_info.replicas) THEN Goto("push", j + 1) ELSE ReturnTrue

\* app.sync: one turn of `for replica in repo_info.replicas`
Push ==
    /\ pc = "push"
    /\ \E ok \in Outcomes :
          /\ ops' = ops \o Ran("push", Replica[1], Replica[2], ok)
          /\ LogError(IF ok THEN 0 ELSE 1)
          /\ AfterPush(ok)
    /\ UNCHANGED <<repo_info, clone_failed, origin_branches, diff, output, disk, cfg,
                   remoteUp>>
    /\ UNCHANGED HandlerArgs

(***************************************************************************)
(* do_integrity                                                            *)
(***************************************************************************)
\* del d[key]
DictDel(d, key) == SelectSeq(d, LAMBDA kv : kv[1] # key)

WithoutHeadKeepsAll(d) == d

\* if "HEAD" in d: del d["HEAD"]
WithoutHead(d) == IF HasKey(d, RefHead) THEN DictDel(d, RefHead) ELSE d

\* set(d.items())
Items(d) == {d[k] : k \in 1..Len(d)}

\* set(a.items()) ^ set(b.items())
SymDiff(a, b) == (Items(a) \ Items(b)) \cup (Items(b) \ Items(a))

\* do_integrity up to the replica loop: the listing of the origin;
\* `"HEAD" in origin_branches` raises TypeError when ls_remote gave None
IntegrityOrigin ==
    /\ pc = "integrity"
    /\ \E reachable \in Outcomes :
          /\ ops' = ops \o Ran("ls-remote", <<>>, repo_info.origin, reachable)
          /\ IF ~reachable
             THEN /\ Crash
                  /\ UNCHANGED <<origin_branches, output>>
             ELSE \E out \in (IF dry_run THEN {<<>>} ELSE Listings) :
                     /\ origin_branches' = WithoutHead(RefMap(out))
                     /\ output' = <<out>>
                     /\ IF ~repo_info.has_replicas
                        THEN Crash
                        ELSE /\ UNCHANGED error_count
                             /\ IF Len(repo_info.replicas) = 0
                                THEN ReturnTrue
                                ELSE Goto("integrity_replica", 1)
    /\ UNCHANGED <<repo_info, clone_failed, diff, disk, cfg, remoteUp>>
    /\ UNCHANGED HandlerArgs

\* one turn of the replica loop of do_integrity
IntegrityReplica ==
    /\ pc = "integrity_replica"
    /\ LET url == Replica[2]
           reachable == dry_run \/ url \in remoteUp
       IN  /\ ops' = ops \o Ran("ls-remote", Replica[1], url, reachable)
           /\ IF ~reachable
              THEN /\ Crash
                   /\ UNCHANGED <<diff, output>>
              ELSE \E out \in (IF dry_run THEN {<<>>} ELSE Listings) :
                      /\ diff' = SymDiff(origin_branches, WithoutHead(RefMap(out)))
                      /\ output' = <<output[1], out>>
                      /\ LogError(IF Cardinality(diff') > 0 THEN 1 ELSE 0)
                      /\ IF j < Len(repo_info.replicas)
                         THEN Goto("integrity_replica", j + 1)
                         ELSE ReturnTrue
    /\ UNCHANGED <<repo_info, clone_failed, origin_branches, disk, cfg, remoteUp>>
    /\ UNCHANGED HandlerArgs

(***************************************************************************)
(* do_purge                                                                *)
(***************************************************************************)
\* what delete_repo of a provider can do: return True, return False
\* (Gitlab: no owned project of that name), or raise
DeleteOutcomes(provider) ==
    IF provider = "gitlab" THEN {"true", "false", "raise"} ELSE {"true", "raise"}

\* one turn of the replica loop of do_purge, with app.delete_remote; an
\* exception of delete_remote is caught by __main__ only
Purge ==
    /\ pc = "purge"
    /\ IF ~repo_info.has_replicas
       THEN /\ Crash
            /\ UNCHANGED <<ops, remoteUp>>
       ELSE IF j > Len(repo_info.replicas)
       THEN /\ ReturnTrue
            /\ UNCHANGED <<ops, remoteUp, error_count>>
       ELSE IF Replica[1] # target
       THEN /\ Goto("purge", j + 1)
            /\ UNCHANGED <<ops, remoteUp, error_count>>
       ELSE LET url == Replica[2]
                provider == FirstMatch(url)
            IN  IF provider = ""
                THEN /\ Crash
                     /\ UNCHANGED <<ops, remoteUp>>
                ELSE \E res \in DeleteOutcomes(provider) :
                        /\ ops' = Append(ops, Op("delete:" \o provider,
                                                 Replica[1], url, res = "true"))
                        /\ remoteUp' = IF res = "true" THEN remoteUp \ {url}
                                       ELSE remoteUp
                        /\ IF res = "raise"
                           THEN Crash
                           ELSE /\ Goto("purge", j + 1)
                                /\ UNCHANGED error_count
    /\ UNCHANGED <<repo_info, clone_failed, origin_branches, diff, output, disk, cfg>>
    /\ UNCHANGED HandlerArgs

(***************************************************************************)
(* The specification.                                                      *)
(***************************************************************************)
Next ==
    \/ Start
    \/ LoadManifest
    \/ Manf
    \/ MirrorClone
    \/ ProbeReplica
    \/ CreateRemote
    \/ AddReplica
    \/ Fetch
    \/ Push
    \/ IntegrityOrigin
    \/ IntegrityReplica
    \/ Purge

Spec == Init /\ [][Next]_vars

\* the steps of a started process: every call it makes returns, so a
\* process that can take a step takes it
Run ==
    \/ LoadManifest
    \/ Manf
    \/ MirrorClone
    \/ ProbeReplica
    \/ CreateRemote
    \/ AddReplica
    \/ Fetch
    \/ Push
    \/ IntegrityOrigin
    \/ IntegrityReplica
    \/ Purge

LiveSpec == Spec /\ WF_vars(Run)

(***************************************************************************)
(* main.py, the variant of the program with aliases: manf, set_alias_info  *)
(* and do_mirror up to the replica loop.  Its manifest is a dict from the  *)
(* repository name to its definition; disk holds the names that exist      *)
(* under repo_dir.  The replica loop and sync of this variant start at     *)
(* "replicas" and are not part of this specification.                      *)
(***************************************************************************)
MaxAliases == 2

GuidC == <<"c">>
AliasNames == {GuidA, GuidB, GuidC}
RepoDir == <<"r">>

\* os.path.join(dir, name) for a relative, non-empty name
Join(dir, name) == dir \o <<"/">> \o name

\* os.path.exists(path)
Exists(path) == \E n \in disk : Join(RepoDir, n) = path

AliasLists == UNION {[1..n -> AliasNames] : n \in 0..MaxAliases}

\* the definitions of a repository that load_manifest of main.py accepts
AliasEntries ==
    {[origin |-> OriginA, replicas |-> <<>>]}
        \cup {[origin |-> OriginA, replicas |-> <<>>, aliases |-> al] : al \in AliasLists}
        \cup {[origin |-> OriginA, replicas |-> <<>>, aliases |-> <<GuidB>>, skip |-> TRUE]}

\* the variables that this variant's steps never read or write
AliasUnused ==
    <<cmd, target, providers, run, j, error_count, returned, err_base, clone_failed,
      origin_branches, diff, output, cfg, remoteUp, disk0, cfg0, up0>>

AliasInit ==
    /\ manifest \in {<< <<GuidA, info>> >> : info \in AliasEntries}
    /\ dry_run \in BOOLEAN
    /\ disk \in SUBSET AliasNames
    /\ disk0 = disk
    /\ pc = "manf"
    /\ i = 1
    /\ repo_info = NoInfo
    /\ ops = <<>>
    /\ exit_code = -1
    /\ cmd = "mirror"
    /\ target = <<>>
    /\ providers = <<>>
    /\ run = 1
    /\ j = 0
    /\ error_count = 0
    /\ returned = {}
    /\ err_base = 0
    /\ clone_failed = {}
    /\ origin_branches = <<>>
    /\ diff = {}
    /\ output = <<>>
    /\ cfg = {}
    /\ remoteUp = {}
    /\ cfg0 = {}
    /\ up0 = {}

\* one turn of the loop of manf of main.py, up to the call of the handler;
\* after the last entry __main__ exits with its own errors, which is 0
ManfAliases ==
    /\ pc = "manf"
    /\ IF i > Len(manifest)
       THEN /\ pc' = "exit"
            /\ exit_code' = 0
            /\ UNCHANGED <<i, repo_info>>
       ELSE LET repo_name == manifest[i][1]
                info == manifest[i][2]
            IN  IF "skip" \in DOMAIN info /\ info.skip
                THEN /\ i' = i + 1
                     /\ UNCHANGED <<pc, exit_code, repo_info>>
                ELSE /\ repo_info' =
                            [repo_name |-> repo_name,
                             origin |-> info.origin,
                             replicas |-> info.replicas,
                             aliases |-> IF "aliases" \in DOMAIN info
                                         THEN info.aliases ELSE <<>>,
                             repo_dir |-> <<>>,
                             repo_path |-> <<>>,
                             exists |-> FALSE,
                             is_alias |-> FALSE]
                     /\ pc' = "mirror"
                     /\ UNCHANGED <<i, exit_code>>
    /\ UNCHANGED <<manifest, dry_run, disk, ops>>
    /\ UNCHANGED AliasUnused

set_alias_info_last(repo_dir, info) ==
    LET repo_path == Join(repo_dir, info.repo_name)
        found == {k \in 1..Len(info.aliases) : Exists(Join(repo_dir, info.aliases[k]))}
        own == [info EXCEPT !.repo_dir = repo_dir,
                            !.repo_path = repo_path,
                            !.exists = Exists(repo_path),
                            !.is_alias = FALSE]
    IN  IF Exists(repo_path) \/ found = {}
        THEN own
        ELSE LET name == info.aliases[CHOOSE k \in found : \A q \in found : q <= k]
             IN  [own EXCEPT !.repo_name = name,
                             !.repo_path = Join(repo_dir, name),
                             !.is_alias = TRUE,
                             !.exists = TRUE]

\* App.set_alias_info: the value of info when the method returns
set_alias_info(repo_dir, info) ==
    LET repo_path == Join(repo_dir, info.repo_name)
        found == {k \in 1..Len(info.aliases) : Exists(Join(repo_dir, info.aliases[k]))}
        own == [info EXCEPT !.repo_dir = repo_dir,
                            !.repo_path = repo_path,
                            !.exists = Exists(repo_path),
                            !.is_alias = FALSE]
    IN  IF Exists(repo_path) \/ found = {}
        THEN own
        ELSE LET name == info.aliases[CHOOSE k \in found : \A q \in found : k <= q]
             IN  [own EXCEPT !.repo_name = name,
                             !.repo_path = Join(repo_dir, name),
                             !.is_alias = TRUE,
                             !.exists = TRUE]

\* do_mirror of main.py: the call of set_alias_info
LocateMirror ==
    /\ pc = "mirror"
    /\ repo_info' = set_alias_info(RepoDir, repo_info)
    /\ pc' = "located"
    /\ UNCHANGED <<manifest, dry_run, disk, ops, i, exit_code>>
    /\ UNCHANGED AliasUnused

\* do_mirror of main.py after set_alias_info: the clone of a mirror that
\* was not found; "git clone --mirror <origin> <repo_name>" runs in repo_dir
CloneUnlessLocated ==
    /\ pc = "located"
    /\ IF repo_info.exists
       THEN /\ pc' = "replicas"
            /\ UNCHANGED <<ops, disk, i>>
       ELSE \E ok \in Outcomes :
               /\ ops' = ops \o Ran("clone", repo_info.repo_name, repo_info.origin, ok)
               /\ disk' = IF ok /\ ~dry_run THEN disk \cup {repo_info.repo_name}
                          ELSE disk
               /\ IF ok
                  THEN pc' = "replicas" /\ UNCHANGED i
                  ELSE pc' = "manf" /\ i' = i + 1
    /\ UNCHANGED <<manifest, dry_run, repo_info, exit_code>>
    /\ UNCHANGED AliasUnused

\* the object names that stand for 40 hexadecimal digits in the listings
Hashes == {"h1", "h2"}

\* App.ls_remote of main.py, given whether run_command returned an error
\* and the standard output: None, "" for a remote without commits, or the
\* hash that re.match finds at the start of the output
ls_remote(err, stdout) ==
    IF err THEN [none |-> TRUE, value |-> <<>>]
    ELSE IF Len(stdout) > 0 /\ stdout[1] \in Hashes
         THEN [none |-> FALSE, value |-> <<stdout[1]>>]
         ELSE [none |-> FALSE, value |-> <<>>]

\* do_mirror of main.py: `if app.ls_remote(url) is None`, the test that
\* leads to create_remote
MissingRemote(err, stdout) == ls_remote(err, stdout).none

AliasNext ==
    \/ ManfAliases
    \/ LocateMirror
    \/ CloneUnlessLocated

AliasSpec == AliasInit /\ [][AliasNext]_vars

(***************************************************************************)
(* Vocabulary of the properties.                                           *)
(***************************************************************************)
OpIndex == 1..Len(ops)

CreateOps == {"create:gitlab", "create:codecommit"}
DeleteOps == {"delete:gitlab", "delete:codecommit"}
RegisterOps == {"config-get", "set-url", "remote-add"}
MutationOps ==
    {"clone", "set-url", "remote-add", "fetch", "push"} \cup CreateOps \cup DeleteOps

\* number of executed operations of the given kinds that failed
Failed(kinds) == Cardinality({k \in OpIndex : ops[k].op \in kinds /\ ~ops[k].ok})

\* the manifest index of the entry that repo_info was built from
CurrentIndex ==
    CHOOSE p \in 1..Len(manifest) : manifest[p].guid = repo_info.repo_name

\* add_replica returned True for the replica `name` before operation k
RegisteredBefore(k, name) ==
    \E q \in 1..(k - 1) :
        /\ ops[q].name = name
        /\ ops[q].op \in RegisterOps
        /\ ops[q].ok
        /\ \A r \in (q + 1)..(k - 1) :
               ~(ops[r].name = name /\ ops[r].op \in RegisterOps)

\* the handler of the current entry is over
HandlerOver == pc \in {"manf", "exit"}

(***************************************************************************)
(* C1: in a mirror run, a failed clone of a repository is followed by no   *)
(* probe, create, remote add/set-url, fetch or push for that repository,   *)
(* and every later entry that is not skipped is still processed: when the  *)
(* run is over its handler has returned.                                   *)
(***************************************************************************)
C1_CloneFailureIsolated ==
    cmd = "mirror" =>
        /\ (Len(ops) > 0 /\ ops[1].op = "clone" /\ ~ops[1].ok) => Len(ops) = 1
        /\ (pc = "exit" /\ LoadOk(manifest)) =>
               \A p \in clone_failed : \A q \in (p + 1)..Len(manifest) :
                   ~Skip(manifest[q]) => q \in returned

(***************************************************************************)
(* C2: every push of a mirror run goes to a replica that add_replica       *)
(* registered successfully earlier in the handling of the same entry.      *)
(***************************************************************************)
C2_PushOnlyToRegistered ==
    cmd = "mirror" =>
        \A k \in OpIndex : ops[k].op = "push" => RegisteredBefore(k, ops[k].name)

(***************************************************************************)
(* C3: every failed push adds exactly one to the error count, and once     *)
(* the fetch succeeded a push is attempted for every replica of            *)
(* repo_info.replicas, in order, whatever the earlier pushes did.          *)
(***************************************************************************)
PushedNames ==
    LET pushes == SelectSeq(ops, LAMBDA o : o.op = "push")
    IN  [k \in 1..Len(pushes) |-> pushes[k].name]

ReplicaNames == [k \in 1..Len(repo_info.replicas) |-> repo_info.replicas[k][1]]

C3_PushFailureIsolated ==
    (cmd = "mirror" /\ ~dry_run /\ repo_info.has_replicas) =>
        /\ error_count - err_base
               - Failed({"clone", "set-url", "remote-add", "fetch"})
             = Failed({"push"})
        /\ (HandlerOver /\ \E k \in OpIndex : ops[k].op = "fetch" /\ ops[k].ok)
               => PushedNames = ReplicaNames

C3_Witness ==
    /\ cmd = "mirror"
    /\ HandlerOver
    /\ \E k \in OpIndex :
          /\ k < Len(ops)
          /\ ops[k].op = "push" /\ ~ops[k].ok
          /\ ops[k + 1].op = "push"

(***************************************************************************)
(* C4: a failed fetch is the last operation of the entry: no push          *)
(* follows, the handler is over, and the fetch added exactly one to the    *)
(* error count.                                                            *)
(***************************************************************************)
C4_FetchFailureSkipsPush ==
    cmd = "mirror" =>
        \A k \in OpIndex : (ops[k].op = "fetch" /\ ~ops[k].ok) =>
            /\ k = Len(ops)
            /\ \A q \in OpIndex : ops[q].op # "push"
            /\ HandlerOver
            /\ error_count - err_base
                   - Failed({"clone", "set-url", "remote-add"}) = 1

C4_Witness ==
    /\ cmd = "mirror"
    /\ Len(ops) > 0
    /\ ops[Len(ops)].op = "fetch" /\ ~ops[Len(ops)].ok
    /\ \E k \in OpIndex : ops[k].op = "remote-add" /\ ops[k].ok

C6_AddReplicaUpsert ==
    (cmd = "mirror" /\ ~dry_run) =>
        \A k \in OpIndex : ops[k].op = "config-get" =>
            LET name == ops[k].name
                url == ops[k].url
                repo == repo_info.repo_path
                before == Configured(cfg0, repo, name)
                after == Configured(cfg, repo, name)
                changes == {q \in OpIndex : /\ ops[q].name = name
                                            /\ ops[q].op \in {"remote-add", "set-url"}}
            IN  /\ ops[k].ok = (before # {})
                /\ before = {url} => changes = {} /\ after = before
                /\ before # {url} =>
                       /\ changes = {k + 1}
                       /\ ops[k + 1].op = IF before = {} THEN "remote-add" ELSE "set-url"
                       /\ ops[k + 1].url = url
                       /\ after = IF ops[k + 1].ok THEN {url} ELSE before

C6_Witness ==
    /\ cmd = "mirror" /\ ~dry_run
    /\ \E k \in OpIndex :
          /\ ops[k].op = "set-url" /\ ops[k].ok
          /\ Configured(cfg0, repo_info.repo_path, ops[k].name) = {UrlOther}
          /\ Configured(cfg, repo_info.repo_path, ops[k].name) = {UrlGitlab}

(***************************************************************************)
(* C7: in dry-run mode no subcommand clones, adds or updates a remote,     *)
(* fetches, pushes or calls a provider, and nothing outside the process    *)
(* changes.                                                                *)
(***************************************************************************)
C7_DryRunNoMutation ==
    dry_run =>
        /\ \A k \in OpIndex : ops[k].op \notin MutationOps
        /\ disk = disk0 /\ cfg = cfg0 /\ remoteUp = up0

(***************************************************************************)
(* C8: a manifest with an entry that lacks origin, lacks replicas, or has  *)
(* a guid outside the identifier pattern (a lowercase letter, then word    *)
(* characters and hyphens) is rejected: the run exits with code 1 and no   *)
(* entry is processed.                                                     *)
(***************************************************************************)
IdentifierPattern(g) ==
    /\ Len(g) >= 1
    /\ g[1] \in Lower
    /\ \A p \in 2..Len(g) : g[p] \in Word \cup {"-"}

MustBeRejected(repo) ==
    \/ "origin" \notin DOMAIN repo
    \/ "replicas" \notin DOMAIN repo
    \/ "guid" \in DOMAIN repo /\ ~IdentifierPattern(repo.guid)

C8_ValidationRejects ==
    (pc \notin {"idle", "load"}
        /\ \E p \in 1..Len(manifest) : MustBeRejected(manifest[p])) =>
            /\ pc = "exit"
            /\ exit_code = 1
            /\ ops = <<>>
            /\ returned = {}

(***************************************************************************)
(* C9: when any entry of the manifest violates repo_schema, the run goes   *)
(* from loading straight to exit code 1: no handler is called, no          *)
(* operation is executed and nothing outside the process changes.          *)
(***************************************************************************)
C9_LoadAllOrNothing ==
    (\E p \in 1..Len(manifest) : ~Validate(manifest[p])) =>
        /\ pc \in {"idle", "load", "exit"}
        /\ pc = "exit" => exit_code = 1
        /\ ops = <<>>
        /\ returned = {}
        /\ disk = disk0 /\ cfg = cfg0 /\ remoteUp = up0

C9_Witness ==
    /\ pc = "exit"
    /\ Len(manifest) = 2
    /\ Validate(manifest[1]) /\ ~Skip(manifest[1])
    /\ ~Validate(manifest[2])

(***************************************************************************)
(* C10: in the integrity check of an entry that declares replicas, an      *)
(* origin whose listing fails gives exactly one error for the entry, no    *)
(* listing of any replica, and the handler returns so that manf goes on    *)
(* to the next entry.                                                      *)
(***************************************************************************)
C10_OriginUnreachable ==
    (/\ cmd = "integrity"
     /\ repo_info.has_replicas
     /\ Len(ops) > 0
     /\ ops[1].op = "ls-remote" /\ ops[1].name = <<>> /\ ~ops[1].ok) =>
        /\ Len(ops) = 1
        /\ error_count = err_base + 1
        /\ CurrentIndex \in returned

(***************************************************************************)
(* C11: in the integrity check, a replica whose listing fails is reported  *)
(* (the error count grows) and the loop goes on: when the handler is over  *)
(* it has returned and every replica of the entry was listed, in order.    *)
(***************************************************************************)
ListedNames ==
    LET listings == SelectSeq(ops, LAMBDA o : o.op = "ls-remote" /\ o.name # <<>>)
    IN  [k \in 1..Len(listings) |-> listings[k].name]

C11_ReplicaUnreachableContinues ==
    (/\ cmd = "integrity"
     /\ HandlerOver
     /\ \E k \in OpIndex :
           ops[k].op = "ls-remote" /\ ops[k].name # <<>> /\ ~ops[k].ok) =>
        /\ error_count > err_base
        /\ CurrentIndex \in returned
        /\ ListedNames = ReplicaNames

(***************************************************************************)
(* C12: the diff that do_integrity computes for a replica is the symmetric *)
(* difference of the (ref, hash) pairs printed for the origin and for the  *)
(* replica, the lines of HEAD left out: it is empty exactly when every ref *)
(* other than HEAD has the same hashes on both sides, and it has no entry  *)
(* named HEAD.                                                             *)
(***************************************************************************)
\* the (ref, hash) pairs of the lines "<hash> TAB <ref>" of a listing
PairsOf(stdout) ==
    {<< <<stdout[k + 2]>>, <<stdout[k]>> >> :
        k \in {q \in 1..(Len(stdout) - 2) : stdout[q + 1] = "\t"}}

PairsButHead(stdout) == {e \in PairsOf(stdout) : e[1] # <<"HEAD">>}

HashesOf(pairs, ref) == {e[2] : e \in {f \in pairs : f[1] = ref}}

C12_DiffIsSymmetricDifference ==
    (cmd = "integrity" /\ Len(output) = 2) =>
        LET a == PairsButHead(output[1])
            b == PairsButHead(output[2])
            refs == {e[1] : e \in a \cup b}
        IN  /\ diff = (a \cup b) \ (a \cap b)
            /\ (diff = {}) = (\A ref \in refs : HashesOf(a, ref) = HashesOf(b, ref))
            /\ \A e \in diff : e[1] # <<"HEAD">>

C12_Witness ==
    /\ cmd = "integrity"
    /\ Len(output) = 2
    /\ \E e \in PairsOf(output[1]) : \E f \in PairsOf(output[2]) :
           e[1] = <<"HEAD">> /\ f[1] = <<"HEAD">> /\ e[2] # f[2]
    /\ diff # {}

(***************************************************************************)
(* C13: when a run is over, its exit code is the number of error-level     *)
(* events of the run, and it is 0 exactly when there was none.  The events *)
(* are the calls of logger.error, which error_count counts, and the one    *)
(* logger.fatal of a manifest that failed to load.                         *)
(***************************************************************************)
ErrorEvents == error_count + (IF LoadOk(manifest) THEN 0 ELSE 1)

C13_ExitCodeIsErrorCount ==
    pc = "exit" =>
        /\ exit_code = ErrorEvents
        /\ (exit_code = 0) = (ErrorEvents = 0)

(***************************************************************************)
(* C14: in the handling of an entry by a mirror run, the error count has   *)
(* grown by the number of steps that failed: the failed clone, the failed  *)
(* provider creations, the failed "git remote add" and "git remote         *)
(* set-url", the failed fetch and the failed pushes, each counted once.    *)
(***************************************************************************)
C14_EveryFailureCountedOnce ==
    (cmd = "mirror" /\ repo_info.has_replicas) =>
        error_count - err_base
            = Failed({"clone", "set-url", "remote-add", "fetch", "push"} \cup CreateOps)

(***************************************************************************)
(* C15: a replica URL that no registered provider matches fails only the   *)
(* operation on that replica.  Mirror: when the replica had to be created, *)
(* the handler still probes every replica of the entry and returns.        *)
(* Purge: when the replica has the target's name and no provider call      *)
(* raised, the handler still deletes every other replica of that name      *)
(* that a provider matches, and returns.                                   *)
(***************************************************************************)
Unmatched == {k \in 1..Len(repo_info.replicas) : FirstMatch(repo_info.replicas[k][2]) = ""}

C15_MirrorNoProviderIsolated ==
    (/\ cmd = "mirror"
     /\ HandlerOver
     /\ \E k \in Unmatched :
           /\ \E q \in OpIndex : ops[q].op = "ls-remote"
                                    /\ ops[q].name = repo_info.replicas[k][1]
           /\ \A q \in OpIndex : ops[q].op = "config-get"
                                    => ops[q].name # repo_info.replicas[k][1]) =>
        /\ CurrentIndex \in returned
        /\ ListedNames = ReplicaNames

C15_PurgeNoProviderIsolated ==
    (/\ cmd = "purge"
     /\ HandlerOver
     /\ repo_info.has_replicas
     /\ \A q \in OpIndex : ops[q].ok
     /\ \E k \in Unmatched : repo_info.replicas[k][1] = target) =>
        /\ CurrentIndex \in returned
        /\ \A k \in 1..Len(repo_info.replicas) :
               (repo_info.replicas[k][1] = target /\ k \notin Unmatched) =>
                   \E q \in OpIndex : ops[q].op \in DeleteOps
                                         /\ ops[q].url = repo_info.replicas[k][2]

C15_NoProviderIsolated ==
    C15_MirrorNoProviderIsolated /\ C15_PurgeNoProviderIsolated

(***************************************************************************)
(* C16: a mirror run over a valid manifest (every entry passes the schema  *)
(* and declares its replicas) comes to its end, and at its end the handler *)
(* of every entry that is not skipped has run and returned, whatever the   *)
(* commands and provider calls did.                                        *)
(***************************************************************************)
ValidManifest ==
    /\ LoadOk(manifest)
    /\ \A p \in 1..Len(manifest) : "replicas" \in DOMAIN manifest[p]

AllProcessed == \A q \in 1..Len(manifest) : ~Skip(manifest[q]) => q \in returned

C16_MirrorBatchCompletes ==
    /\ [](cmd = "mirror" /\ ValidManifest /\ pc = "exit" => AllProcessed)
    /\ (cmd = "mirror" /\ ValidManifest /\ pc = "load") ~> (pc = "exit")

C16_Witness ==
    /\ cmd = "mirror" /\ ValidManifest /\ pc = "exit"
    /\ Len(manifest) = 2
    /\ 1 \in clone_failed
    /\ returned = {1, 2}
    /\ \E k \in OpIndex : ops[k].op = "push" /\ ~ops[k].ok

(***************************************************************************)
(* C17: what set_alias_info leaves in the RepoInfo of an entry.  The       *)
(* directory of the name exists: exists, not an alias, the name kept.      *)
(* Otherwise the first alias, in the order of the manifest, whose          *)
(* directory exists: exists, an alias, repo_name that alias and repo_path  *)
(* its directory.  No candidate exists: not exists, the name kept.  And    *)
(* do_mirror runs no clone for a mirror that was found under an alias:     *)
(* the directory of the primary name is not created.                       *)
(***************************************************************************)
DeclaredAliases ==
    IF "aliases" \in DOMAIN manifest[i][2] THEN manifest[i][2].aliases ELSE <<>>

C17_Located(name, aliases) ==
    LET present == {k \in 1..Len(aliases) : aliases[k] \in disk0}
    IN  /\ name \in disk0 =>
               /\ repo_info.exists /\ ~repo_info.is_alias
               /\ repo_info.repo_name = name
               /\ repo_info.repo_path = <<"r", "/">> \o name
        /\ (name \notin disk0 /\ present # {}) =>
               \E k \in present :
                   /\ \A q \in 1..(k - 1) : aliases[q] \notin disk0
                   /\ repo_info.exists /\ repo_info.is_alias
                   /\ repo_info.repo_name = aliases[k]
                   /\ repo_info.repo_path = <<"r", "/">> \o aliases[k]
                   /\ ops = <<>>
                   /\ disk = disk0
        /\ (name \notin disk0 /\ present = {}) =>
               /\ ~repo_info.exists /\ ~repo_info.is_alias
               /\ repo_info.repo_name = name

C17_SetAliasInfo ==
    pc \in {"located", "replicas"} => C17_Located(manifest[i][1], DeclaredAliases)

C17_Witness ==
    /\ pc = "replicas"
    /\ ~dry_run
    /\ disk0 = {GuidB, GuidC}
    /\ DeclaredAliases = <<GuidC, GuidB>>
    /\ repo_info.repo_name = GuidC

(***************************************************************************)
(* C18: an entry of the manifest with skip = true is never handed to a     *)
(* handler, in any subcommand: no handler is at work on it, none has       *)
(* returned for it, and the operations executed belong to an entry that is *)
(* not marked.  And the mark does not make validation fail: a marked entry *)
(* is valid exactly when it is valid without the mark.                     *)
(***************************************************************************)
Marked(repo) == "skip" \in DOMAIN repo /\ repo.skip = TRUE

Unmarked(repo) == [key \in DOMAIN repo \ {"skip"} |-> repo[key]]

HandlerPcs ==
    {"mirror", "probe", "create", "add", "fetch", "push",
     "integrity", "integrity_replica", "purge"}

C18_SkippedUntouched ==
    /\ \A q \in 1..Len(manifest) : Marked(manifest[q]) =>
           /\ q \notin returned
           /\ ~(pc \in HandlerPcs /\ i = q)
           /\ Validate(manifest[q]) = Validate(Unmarked(manifest[q]))
    /\ ops # <<>> =>
           \E q \in 1..Len(manifest) :
               /\ ~Marked(manifest[q])
               /\ q \in returned \/ q = i
               /\ repo_info.repo_name = manifest[q].guid
               /\ repo_info.origin = manifest[q].origin

C18_Witness ==
    /\ pc = "exit"
    /\ Len(manifest) = 2
    /\ Marked(manifest[1])
    /\ returned = {2}
    /\ ops # <<>>

(***************************************************************************)
(* C19: a purge with target T executes nothing but provider deletes, each  *)
(* for a replica named T and none twice; it leaves the mirrors on disk and *)
(* their configuration alone; and it reaches every replica named T: the    *)
(* handler of an entry that declares replicas goes through its whole       *)
(* replica list and returns, with a delete executed for each replica named *)
(* T whose URL a provider matches.  (The manifest is never written: no     *)
(* action changes it.)                                                     *)
(***************************************************************************)
C19_PurgeDeletesExactlyTarget ==
    cmd = "purge" =>
        /\ \A k \in OpIndex : ops[k].op \in DeleteOps /\ ops[k].name = target
        /\ \A k, q \in OpIndex : ops[k].url = ops[q].url => k = q
        /\ disk = disk0 /\ cfg = cfg0
        /\ (HandlerOver /\ repo_info.has_replicas) =>
               /\ CurrentIndex \in returned
               /\ \A k \in 1..Len(repo_info.replicas) :
                      (repo_info.replicas[k][1] = target /\ k \notin Unmatched) =>
                          \E q \in OpIndex : ops[q].url = repo_info.replicas[k][2]

(***************************************************************************)
(* C20: an integrity run changes nothing.  Every operation it executes is  *)
(* a remote listing of the origin or of a declared replica of the entry;   *)
(* the mirrors on disk, their configuration and the remotes are what they  *)
(* were when the run started.                                              *)
(***************************************************************************)
C20_IntegrityReadOnly ==
    cmd = "integrity" =>
        /\ \A k \in OpIndex :
               /\ ops[k].op = "ls-remote"
               /\ \/ ops[k].name = <<>> /\ ops[k].url = repo_info.origin
                  \/ \E q \in 1..Len(repo_info.replicas) :
                         repo_info.replicas[q] = <<ops[k].name, ops[k].url>>
        /\ disk = disk0 /\ cfg = cfg0 /\ remoteUp = up0

C20_Witness ==
    /\ cmd = "integrity" /\ ~dry_run
    /\ pc = "exit" /\ exit_code = error_count
    /\ Len(ops) = 3
    /\ diff # {}

(***************************************************************************)
(* C21: the order of the operations of a mirror run.  For one entry: the   *)
(* clone, if any, comes first; the operations on the replicas come in the  *)
(* order of the manifest; the fetch comes after every declared replica was *)
(* probed; a push comes only after a fetch that succeeded, and the pushes  *)
(* follow the order of the manifest.  Across entries: while the handler of *)
(* entry i is at work, the handler of every earlier entry that is not      *)
(* skipped has returned and none of a later entry has started.             *)
(***************************************************************************)
ReplicaIndex(name) ==
    CHOOSE k \in 1..Len(repo_info.replicas) : repo_info.replicas[k][1] = name

ReplicaOps == {"ls-remote", "config-get", "set-url", "remote-add"} \cup CreateOps

C21_MirrorStepOrder ==
    (cmd = "mirror" /\ ~dry_run) =>
        /\ \A k \in OpIndex :
               /\ ops[k].op = "clone" => k = 1
               /\ ops[k].op \in ReplicaOps =>
                      \A q \in 1..(k - 1) :
                          /\ ops[q].op \in ReplicaOps \cup {"clone"}
                          /\ ops[q].op \in ReplicaOps =>
                                 ReplicaIndex(ops[q].name) <= ReplicaIndex(ops[k].name)
               /\ ops[k].op = "fetch" =>
                      /\ \A q \in 1..(k - 1) : ops[q].op \in ReplicaOps \cup {"clone"}
                      /\ \A r \in 1..Len(repo_info.replicas) :
                             \E q \in 1..(k - 1) :
                                 /\ ops[q].op = "ls-remote"
                                 /\ ops[q].name = repo_info.replicas[r][1]
               /\ ops[k].op = "push" =>
                      /\ \E q \in 1..(k - 1) : ops[q].op = "fetch" /\ ops[q].ok
                      /\ \A q \in (k + 1)..Len(ops) :
                             /\ ops[q].op = "push"
                             /\ ReplicaIndex(ops[k].name) < ReplicaIndex(ops[q].name)
        /\ pc \in HandlerPcs =>
               /\ \A q \in 1..(i - 1) : ~Marked(manifest[q]) => q \in returned
               /\ \A q \in returned : q < i

C21_Witness ==
    /\ cmd = "mirror" /\ ~dry_run
    /\ pc = "manf" /\ i - 1 \in returned
    /\ Len(repo_info.replicas) = 2
    /\ ops[1].op = "clone"
    /\ \E k \in OpIndex : ops[k].op \in CreateOps
    /\ \E k \in OpIndex : ops[k].op = "remote-add"
    /\ Cardinality({k \in OpIndex : ops[k].op = "push"}) = 2

(***************************************************************************)
(* C22: the probe of do_mirror takes a replica for missing, and goes on to *)
(* create it, only when its listing failed; a listing that succeeded, with *)
(* no ref at all as well, makes the replica count as existing and leads to *)
(* add_replica.  So every provider create that is executed follows the     *)
(* failed listing of the same replica.  The test of main.py agrees: it     *)
(* holds only for a listing that failed.                                   *)
(***************************************************************************)
C22_EmptyRemoteExists ==
    /\ cmd = "mirror" =>
           /\ pc = "create" => output = <<>>
           /\ (pc \in {"add", "create"} /\ output # <<>>) => pc = "add"
           /\ \A k \in OpIndex : ops[k].op \in CreateOps =>
                  /\ ~dry_run
                  /\ k > 1
                  /\ ops[k - 1].op = "ls-remote" /\ ~ops[k - 1].ok
                  /\ ops[k - 1].name = ops[k].name
    /\ \A stdout \in Listings : ~MissingRemote(FALSE, stdout)
    /\ MissingRemote(TRUE, <<>>)

C22_Witness ==
    /\ cmd = "mirror" /\ ~dry_run
    /\ pc = "add"
    /\ output = << <<>> >>
    /\ ops[Len(ops)].op = "ls-remote" /\ ops[Len(ops)].ok

(***************************************************************************)
(* C23: nothing is attempted twice in the handling of an entry by a mirror *)
(* run, and no entry is handled twice in a run: at most one clone and one  *)
(* fetch, and for each replica at most one provider create, at most one    *)
(* "git remote add" or "git remote set-url", and at most one push.         *)
(***************************************************************************)
Attempts(kinds, name) ==
    Cardinality({k \in OpIndex : ops[k].op \in kinds /\ ops[k].name = name})

C23_NoRetry ==
    cmd = "mirror" =>
        /\ Attempts({"clone"}, <<>>) <= 1
        /\ Attempts({"fetch"}, <<>>) <= 1
        /\ \A k \in OpIndex :
               /\ ops[k].op \in {"clone", "fetch"} => ops[k].name = <<>>
               /\ Attempts(CreateOps, ops[k].name) <= 1
               /\ Attempts({"remote-add", "set-url"}, ops[k].name) <= 1
               /\ Attempts({"push"}, ops[k].name) <= 1
        /\ pc \in HandlerPcs => i \notin returned

C23_Witness ==
    /\ cmd = "mirror"
    /\ HandlerOver
    /\ \E k \in OpIndex : ops[k].op \in CreateOps /\ ~ops[k].ok
    /\ \E k \in OpIndex : ops[k].op = "remote-add" /\ ~ops[k].ok
    /\ \E k \in OpIndex : ops[k].op = "push" /\ ~ops[k].ok

(***************************************************************************)
(* C24: every provider call that create_remote or delete_remote makes goes *)
(* to one provider, the first in registration order that matches the URL:  *)
(* GitLab when it is registered and the URL holds "gitlab"; CodeCommit     *)
(* when it is registered, the URL holds "codecommit" and GitLab is not     *)
(* registered or does not match; no call when neither holds.  GitLab is    *)
(* registered before CodeCommit, and a replica gets one call at most.      *)
(***************************************************************************)
Registered(provider) == \E k \in 1..Len(providers) : providers[k] = provider

C24_FirstMatchingProvider ==
    /\ \A a, b \in 1..Len(providers) :
           (providers[a] = "gitlab" /\ providers[b] = "codecommit") => a < b
    /\ \A k \in OpIndex : ops[k].op \in CreateOps \cup DeleteOps =>
           LET gitlab == Registered("gitlab") /\ Contains(ops[k].url, TokenGitlab)
               codecommit == Registered("codecommit")
                                 /\ Contains(ops[k].url, TokenCodeCommit)
           IN  /\ ops[k].op \in {"create:gitlab", "delete:gitlab"} <=> gitlab
               /\ ops[k].op \in {"create:codecommit", "delete:codecommit"}
                      <=> (~gitlab /\ codecommit)
               /\ \A q \in OpIndex :
                      (ops[q].op \in CreateOps \cup DeleteOps
                           /\ ops[q].name = ops[k].name) => q = k

C24_Witness ==
    /\ providers = <<"gitlab", "codecommit">>
    /\ \E k \in OpIndex :
          /\ ops[k].op \in {"create:gitlab", "delete:gitlab"}
          /\ Contains(ops[k].url, TokenCodeCommit)

(***************************************************************************)
(* C25: in a mirror run, a provider create that failed or a "git remote    *)
(* add" or "git remote set-url" that failed stops nothing else of the      *)
(* entry: when the handler is over every declared replica was probed, a    *)
(* replica whose probe succeeded or whose create succeeded went through    *)
(* add_replica, a replica whose probe failed and that a provider matches   *)
(* got its create, and the fetch was run.                                  *)
(***************************************************************************)
Did(kinds, name) == \E k \in OpIndex : ops[k].op \in kinds /\ ops[k].name = name

DidWell(kinds, name) ==
    \E k \in OpIndex : ops[k].op \in kinds /\ ops[k].name = name /\ ops[k].ok

C25_ReplicaFailureIsolated ==
    (/\ cmd = "mirror" /\ ~dry_run
     /\ HandlerOver
     /\ Failed(CreateOps \cup {"remote-add", "set-url"}) > 0) =>
        /\ \A r \in 1..Len(repo_info.replicas) :
               LET name == repo_info.replicas[r][1]
               IN  /\ Did({"ls-remote"}, name)
                   /\ DidWell({"ls-remote"}, name) => Did({"config-get"}, name)
                   /\ (~DidWell({"ls-remote"}, name) /\ r \notin Unmatched)
                          => Did(CreateOps, name)
                   /\ DidWell(CreateOps, name) => Did({"config-get"}, name)
        /\ Did({"fetch"}, <<>>)
        /\ CurrentIndex \in returned

C25_Witness ==
    /\ cmd = "mirror" /\ ~dry_run
    /\ HandlerOver
    /\ Len(ops) >= 4
    /\ ops[2].op = "ls-remote" /\ ~ops[2].ok
    /\ ops[3].op \in CreateOps /\ ~ops[3].ok
    /\ \E k \in OpIndex : ops[k].op = "remote-add" /\ ~ops[k].ok
    /\ ops[Len(ops)].op = "push"

(***************************************************************************)
(* C26: a dry-run mirror over a manifest that loads and in which every     *)
(* entry declares replicas calls no provider create (it executes nothing   *)
(* at all: every probe answers with the synthetic success), counts no      *)
(* error, and ends with every entry that is not skipped handled and with   *)
(* exit code 0.                                                            *)
(***************************************************************************)
C26_DryRunMirrorClean ==
    (cmd = "mirror" /\ dry_run /\ ValidManifest) =>
        /\ \A k \in OpIndex : ops[k].op \notin CreateOps
        /\ ops = <<>>
        /\ pc # "create"
        /\ error_count = 0
        /\ pc = "exit" => (exit_code = 0 /\ AllProcessed)

C26_Witness ==
    /\ cmd = "mirror" /\ dry_run /\ ValidManifest
    /\ pc = "exit"
    /\ returned = {1, 2}
    /\ Len(manifest[2].replicas) > 0
    /\ FirstMatch(manifest[2].replicas[1][2]) # ""

====
